---- MODULE Spec2Model ----
(***************************************************************************)
(* State-machine model of the expense tracker API (src/app.py): the three  *)
(* tables User, Category and Expense, the identity tokens handed out, the  *)
(* server clock, and one action per request handler.  Every handler writes *)
(* the HTTP response it produced to resp.                                  *)
(***************************************************************************)
EXTENDS Integers, Sequences, FiniteSets, TLC

VARIABLES users, categories, expenses, tokens, today, startDate, resp, pc, frame

vars == <<users, categories, expenses, tokens, today, startDate, resp, pc, frame>>

(***************************************************************************)
(* The columns of the three tables.                                        *)
(***************************************************************************)
User == {"id", "name", "email", "password_hash"}
Expense == {"id", "date", "description", "amount", "category_id", "user_id"}
Category == {"id", "name"}

TypeOK ==
    /\ \A u \in users : DOMAIN u = User
    /\ \A e \in expenses : DOMAIN e = Expense
    /\ \A c \in categories : DOMAIN c = Category
    /\ \A u, v \in users : u.id = v.id => u = v
    /\ \A e, f \in expenses : e.id = f.id => e = f
    /\ \A c, d \in categories : c.id = d.id => c = d

(***************************************************************************)
(* Bounds of the model.                                                    *)
(***************************************************************************)
MaxUsers == 2
MaxExpenses == 2
MaxCategories == 2
MaxTicks == 1
MaxThreads == 2
MaxLedger == 2
MaxSpan == 130
MaxBack == 100

(***************************************************************************)
(* JSON request bodies.  A body is a function from the keys it holds to    *)
(* JSON values; a value is a string or null.  Text that the program parses *)
(* (amounts) is a sequence of characters, other text is an atom.           *)
(***************************************************************************)
Str(s) == <<"str", s>>
Null == <<"null">>
IsNull(v) == v[1] = "null"
Val(v) == v[2]

\* The name of a Python exception that no handler catches: Flask answers 500.
Crash(op, exc) == [op |-> op, status |-> 500, kind |-> exc]
Reply(op, status, kind) == [op |-> op, status |-> status, kind |-> kind]
Unauthorized(op) == [op |-> op, status |-> 401, kind |-> "Unauthorized"]

NoToken == 0

MaxId(rows) == IF rows = {} THEN 0 ELSE CHOOSE n \in { r.id : r \in rows } :
                                           \A r \in rows : r.id <= n
NextId(rows) == MaxId(rows) + 1

(***************************************************************************)
(* User: set_password / check_password.  The hash is one-way and salted;   *)
(* it is modelled as a tagged value that only check_password can test.     *)
(***************************************************************************)
generate_password_hash(password) == <<"pbkdf2", password>>
check_password_hash(hash, password) == hash = generate_password_hash(password)
check_password(user, password) == check_password_hash(user.password_hash, password)

Names == {"ann"}
Emails == {"a@x", "b@x"}
Passwords == {"pw1", "pw2"}

RegisterBodies ==
    { [name |-> n, email |-> e, password |-> p] :
        n \in {Str(x) : x \in Names} \cup {Null},
        e \in {Str(x) : x \in Emails} \cup {Null},
        p \in {Str("pw1"), Null} }
    \cup { [name |-> Str("ann"), email |-> Str("a@x")] }

LoginBodies ==
    { [email |-> e, password |-> p] :
        e \in {Str(x) : x \in Emails},
        p \in {Str(x) : x \in Passwords} \cup {Null} }
    \cup { [email |-> Str("a@x")] }

(***************************************************************************)
(* POST /register                                                          *)
(***************************************************************************)
register(data) ==
    /\ IF ~ {"name", "email", "password"} \subseteq DOMAIN data
       THEN /\ resp' = Crash("register", "ValueError")
            /\ UNCHANGED <<users, tokens>>
       ELSE IF IsNull(data["password"])
       THEN \* generate_password_hash(None) raises
            /\ resp' = Crash("register", "AttributeError")
            /\ UNCHANGED <<users, tokens>>
       ELSE IF \/ IsNull(data["name"])
               \/ IsNull(data["email"])
               \/ \E u \in users : u.email = Val(data["email"])
       THEN \* NOT NULL or UNIQUE constraint fails at commit
            /\ resp' = Crash("register", "IntegrityError")
            /\ UNCHANGED <<users, tokens>>
       ELSE /\ Cardinality(users) < MaxUsers
            /\ LET user == [id |-> NextId(users),
                            name |-> Val(data["name"]),
                            email |-> Val(data["email"]),
                            password_hash |-> generate_password_hash(Val(data["password"]))]
               IN /\ users' = users \cup {user}
                  /\ tokens' = tokens \cup {user.id}
                  /\ resp' = [op |-> "register", status |-> 200, kind |-> "token",
                              token |-> user.id]
    /\ UNCHANGED <<categories, expenses, today, startDate, pc, frame>>

(***************************************************************************)
(* POST /login                                                             *)
(***************************************************************************)
LookupUser(email) == { u \in users : u.email = email }

login(data) ==
    /\ IF ~ {"email", "password"} \subseteq DOMAIN data
       THEN /\ resp' = Crash("login", "ValueError")
            /\ UNCHANGED tokens
       ELSE IF LookupUser(Val(data["email"])) = {}
       THEN \* user is None: user.id raises before the credentials are tested
            /\ resp' = Crash("login", "AttributeError")
            /\ UNCHANGED tokens
       ELSE LET user == CHOOSE u \in LookupUser(Val(data["email"])) : TRUE
            IN IF IsNull(data["password"])
               THEN \* check_password_hash(hash, None) raises
                    /\ resp' = Crash("login", "AttributeError")
                    /\ UNCHANGED tokens
               ELSE IF check_password(user, Val(data["password"]))
               THEN /\ resp' = [op |-> "login", status |-> 200, kind |-> "token",
                                token |-> user.id]
                    /\ tokens' = tokens \cup {user.id}
               ELSE /\ resp' = Reply("login", 200, "email or password is invalid")
                    /\ UNCHANGED tokens
    /\ UNCHANGED <<users, categories, expenses, today, startDate, pc, frame>>

(***************************************************************************)
(* Calendar dates, as datetime.date computes them.  A date is <<y, m, d>>; *)
(* arithmetic with a timedelta goes through the proleptic ordinal.         *)
(***************************************************************************)
_is_leap(y) == y % 4 = 0 /\ (y % 100 # 0 \/ y % 400 = 0)
_days_in_month(y, m) ==
    IF m = 2 THEN (IF _is_leap(y) THEN 29 ELSE 28)
    ELSE IF m \in {4, 6, 9, 11} THEN 30 ELSE 31
_days_before_year(y) ==
    (y - 1) * 365 + (y - 1) \div 4 - (y - 1) \div 100 + (y - 1) \div 400
RECURSIVE _days_before_month(_, _)
_days_before_month(y, m) ==
    IF m = 1 THEN 0 ELSE _days_before_month(y, m - 1) + _days_in_month(y, m - 1)
toordinal(date) ==
    _days_before_year(date[1]) + _days_before_month(date[1], date[2]) + date[3]

Years == 2022..2025
fromordinal(n) ==
    LET y == CHOOSE yy \in Years :
                 _days_before_year(yy) < n /\ n <= _days_before_year(yy + 1)
        r == n - _days_before_year(y)
        m == CHOOSE mm \in 1..12 :
                 /\ _days_before_month(y, mm) < r
                 /\ r <= _days_before_month(y, mm) + _days_in_month(y, mm)
    IN <<y, m, r - _days_before_month(y, m)>>

\* date.weekday(): Monday is 0
weekday(date) == (toordinal(date) + 6) % 7
\* date - timedelta(days=n)
minus_days(date, n) == fromordinal(toordinal(date) - n)
\* date.replace(day=1)
replace_day1(date) == <<date[1], date[2], 1>>
\* date <= date, as Python orders dates
date_le(a, b) ==
    \/ a[1] < b[1]
    \/ a[1] = b[1] /\ a[2] < b[2]
    \/ a[1] = b[1] /\ a[2] = b[2] /\ a[3] <= b[3]

(***************************************************************************)
(* Amount text: int(amount.replace("$", "")) and f"${total}".              *)
(***************************************************************************)
Digits == <<"0", "1", "2", "3", "4", "5", "6", "7", "8", "9">>
IsDigit(c) == \E i \in 1..10 : Digits[i] = c
DigitVal(c) == (CHOOSE i \in 1..10 : Digits[i] = c) - 1

\* s.replace("$", ""): every occurrence is removed
RECURSIVE replace_dollar(_)
replace_dollar(s) ==
    IF s = <<>> THEN <<>>
    ELSE IF Head(s) = "$" THEN replace_dollar(Tail(s))
    ELSE <<Head(s)>> \o replace_dollar(Tail(s))

RECURSIVE ParseNat(_, _)
ParseNat(s, acc) ==
    IF s = <<>> THEN acc ELSE ParseNat(Tail(s), 10 * acc + DigitVal(Head(s)))

\* the texts int() accepts: an optional sign, then digits only
int_ok(s) ==
    LET body == IF s # <<>> /\ Head(s) \in {"-", "+"} THEN Tail(s) ELSE s
    IN body # <<>> /\ \A i \in 1..Len(body) : IsDigit(body[i])
int(s) ==
    IF Head(s) = "-" THEN 0 - ParseNat(Tail(s), 0)
    ELSE IF Head(s) = "+" THEN ParseNat(Tail(s), 0)
    ELSE ParseNat(s, 0)

\* str(n) of an integer
RECURSIVE StrNat(_)
StrNat(n) == IF n < 10 THEN <<Digits[n + 1]>>
             ELSE StrNat(n \div 10) \o <<Digits[(n % 10) + 1]>>
str(n) == IF n < 0 THEN <<"-">> \o StrNat(0 - n) ELSE StrNat(n)

\* f"${total}"
fmt_dollar(n) == <<"$">> \o str(n)

(***************************************************************************)
(* Rows as the handlers render them (the row joined with its category).    *)
(***************************************************************************)
CategoryName(id) == (CHOOSE c \in categories : c.id = id).name
Render(e) == [id |-> e.id, date |-> e.date, description |-> e.description,
              amount |-> e.amount, category |-> CategoryName(e.category_id)]

CategoryNames == {"food", "fun"}

AddBodies ==
    { [description |-> d, amount |-> a, category |-> c] :
        d \in {Str("lunch"), Null},
        a \in {Str(<<"$", "5">>), Null},
        c \in {Str(x) : x \in CategoryNames} \cup {Null} }
    \cup { [description |-> Str("lunch"), amount |-> Str(<<"$", "5">>)] }

UpdateBodies ==
    { [description |-> d, amount |-> a] :
        d \in {Str("dinner"), Null},
        a \in {Str(<<"$", "-", "3">>), Null} }
    \cup { [description |-> Str("dinner")] }

(***************************************************************************)
(* POST /expense, one request from start to end.                           *)
(***************************************************************************)
LookupCategory(name) == { c \in categories : c.name = name }

add(token, data) ==
    /\ IF token = NoToken
       THEN /\ resp' = Unauthorized("add")
            /\ UNCHANGED <<categories, expenses>>
       ELSE IF ~ {"description", "amount", "category"} \subseteq DOMAIN data
       THEN /\ resp' = Crash("add", "ValueError")
            /\ UNCHANGED <<categories, expenses>>
       ELSE IF IsNull(data["category"])
       THEN \* no row has a null name; Category(name=None) fails at the first commit
            /\ resp' = Crash("add", "IntegrityError")
            /\ UNCHANGED <<categories, expenses>>
       ELSE LET hit == LookupCategory(Val(data["category"]))
                category == IF hit # {} THEN CHOOSE c \in hit : TRUE
                            ELSE [id |-> NextId(categories), name |-> Val(data["category"])]
            IN \* the first commit (line 90) stores the new category
               /\ hit = {} => Cardinality(categories) < MaxCategories
               /\ categories' = categories \cup {category}
               /\ IF IsNull(data["description"]) \/ IsNull(data["amount"])
                  THEN \* NOT NULL fails at the second commit (line 93)
                       /\ resp' = Crash("add", "IntegrityError")
                       /\ UNCHANGED expenses
                  ELSE /\ Cardinality(expenses) < MaxExpenses
                       /\ LET expense == [id |-> NextId(expenses),
                                          date |-> startDate,
                                          description |-> Val(data["description"]),
                                          amount |-> Val(data["amount"]),
                                          category_id |-> category.id,
                                          user_id |-> token]
                          IN /\ expenses' = expenses \cup {expense}
                             /\ resp' = [op |-> "add", status |-> 200, kind |-> "expense",
                                         body |-> [id |-> expense.id, date |-> expense.date,
                                                   description |-> expense.description,
                                                   amount |-> expense.amount,
                                                   category |-> category.name]]
    /\ UNCHANGED <<users, tokens, today, startDate, pc, frame>>

(***************************************************************************)
(* POST /expense served by concurrent request threads.  Each thread has a  *)
(* session of its own; what one thread does between two commits of another *)
(* is visible to it.  The steps are the statements that touch the store:   *)
(* the category query (line 86), the first commit (line 90) and the second *)
(* commit (line 93).                                                       *)
(***************************************************************************)
Threads == 1..MaxThreads
NoFrame == [token |-> NoToken]
Finish(t, r) ==
    /\ pc' = [pc EXCEPT ![t] = "done"]
    /\ resp' = r

add_query(t, token, data) ==
    /\ pc[t] = "idle"
    /\ IF token = NoToken
       THEN /\ Finish(t, Unauthorized("add"))
            /\ frame' = [frame EXCEPT ![t] = [token |-> token, resp |-> resp']]
       ELSE IF ~ {"description", "amount", "category"} \subseteq DOMAIN data
       THEN /\ Finish(t, Crash("add", "ValueError"))
            /\ frame' = [frame EXCEPT ![t] = [token |-> token, resp |-> resp']]
       ELSE LET hit == IF IsNull(data["category"]) THEN {}
                       ELSE LookupCategory(Val(data["category"]))
            IN /\ pc' = [pc EXCEPT ![t] = IF hit = {} THEN "line 88" ELSE "line 91"]
               /\ frame' = [frame EXCEPT ![t] =
                               [token |-> token, data |-> data, unseen |-> hit = {},
                                category |-> IF hit = {} THEN [id |-> 0]
                                             ELSE CHOOSE c \in hit : TRUE]]
               /\ UNCHANGED resp
    /\ UNCHANGED <<users, categories, expenses, tokens, today, startDate>>

add_commit_category(t) ==
    /\ pc[t] = "line 88"
    /\ LET data == frame[t].data
       IN IF \/ IsNull(data["category"])
             \/ LookupCategory(Val(data["category"])) # {}
          THEN \* NOT NULL or UNIQUE constraint on Category.name
               /\ Finish(t, Crash("add", "IntegrityError"))
               /\ frame' = [frame EXCEPT ![t] = [@ EXCEPT !.category = [id |-> 0]]
                                                  @@ [resp |-> resp']]
               /\ UNCHANGED categories
          ELSE LET category == [id |-> NextId(categories), name |-> Val(data["category"])]
               IN /\ Cardinality(categories) < MaxCategories
                  /\ categories' = categories \cup {category}
                  /\ pc' = [pc EXCEPT ![t] = "line 91"]
                  /\ frame' = [frame EXCEPT ![t].category = category]
                  /\ UNCHANGED resp
    /\ UNCHANGED <<users, expenses, tokens, today, startDate>>

add_commit_expense(t) ==
    /\ pc[t] = "line 91"
    /\ LET data == frame[t].data
           category == frame[t].category
       IN IF IsNull(data["description"]) \/ IsNull(data["amount"])
          THEN /\ Finish(t, Crash("add", "IntegrityError"))
               /\ frame' = [frame EXCEPT ![t] = @ @@ [resp |-> resp']]
               /\ UNCHANGED expenses
          ELSE LET expense == [id |-> NextId(expenses),
                               date |-> startDate,
                               description |-> Val(data["description"]),
                               amount |-> Val(data["amount"]),
                               category_id |-> category.id,
                               user_id |-> frame[t].token]
               IN /\ expenses' = expenses \cup {expense}
                  /\ Finish(t, [op |-> "add", status |-> 200, kind |-> "expense",
                                body |-> [id |-> expense.id, date |-> expense.date,
                                          description |-> expense.description,
                                          amount |-> expense.amount,
                                          category |-> category.name]])
                  /\ frame' = [frame EXCEPT ![t] = @ @@ [resp |-> resp']]
    /\ UNCHANGED <<users, categories, tokens, today, startDate>>

(***************************************************************************)
(* PUT /expense/<id>                                                       *)
(***************************************************************************)
Get(id) == { e \in expenses : e.id = id }

\* An update that stores a fresh row, whose date takes the column default.
AssignFresh(expense, data) ==
    [expense EXCEPT !.description = Val(data["description"]),
                    !.amount = Val(data["amount"]),
                    !.date = startDate]

\* expense.description = ...; expense.amount = ...
Assign(expense, data) ==
    [expense EXCEPT !.description = Val(data["description"]),
                    !.amount = Val(data["amount"])]

update(token, id, data) ==
    /\ IF token = NoToken
       THEN /\ resp' = Unauthorized("update")
            /\ UNCHANGED expenses
       ELSE IF Get(id) = {}
       THEN /\ resp' = Reply("update", 200, "Expense not found")
            /\ UNCHANGED expenses
       ELSE LET expense == CHOOSE e \in Get(id) : TRUE
            IN IF expense.user_id # token
               THEN /\ resp' = Reply("update", 200, "Forbbiden")
                    /\ UNCHANGED expenses
               ELSE IF ~ {"description", "amount"} \subseteq DOMAIN data
               THEN /\ resp' = Crash("update", "ValueError")
                    /\ UNCHANGED expenses
               ELSE IF IsNull(data["description"]) \/ IsNull(data["amount"])
               THEN /\ resp' = Crash("update", "IntegrityError")
                    /\ UNCHANGED expenses
               ELSE LET new == Assign(expense, data)
                    IN /\ expenses' = (expenses \ {expense}) \cup {new}
                       /\ resp' = [op |-> "update", status |-> 200, kind |-> "expense",
                                   body |-> Render(new)]
    /\ UNCHANGED <<users, categories, tokens, today, startDate, pc, frame>>

(***************************************************************************)
(* DELETE /expenses/<id>                                                   *)
(***************************************************************************)
delete(token, id) ==
    /\ IF token = NoToken
       THEN /\ resp' = Unauthorized("delete")
            /\ UNCHANGED expenses
       ELSE IF Get(id) = {}
       THEN /\ resp' = Reply("delete", 200, "Expense not found")
            /\ UNCHANGED expenses
       ELSE LET expense == CHOOSE e \in Get(id) : TRUE
            IN IF expense.user_id # token
               THEN /\ resp' = Reply("delete", 403, "Forbidden")
                    /\ UNCHANGED expenses
               ELSE /\ expenses' = expenses \ {expense}
                    /\ resp' = Reply("delete", 204, "success")
    /\ UNCHANGED <<users, categories, tokens, today, startDate, pc, frame>>

(***************************************************************************)
(* GET /expense                                                            *)
(***************************************************************************)
get_all(token) ==
    /\ resp' = IF token = NoToken THEN Unauthorized("get_all")
               ELSE IF expenses = {} THEN Reply("get_all", 200, "Expense not found")
               ELSE [op |-> "get_all", status |-> 200, kind |-> "list",
                     body |-> { Render(e) : e \in expenses }]
    /\ UNCHANGED <<users, categories, expenses, tokens, today, startDate, pc, frame>>

(***************************************************************************)
(* GET /expense/total                                                      *)
(***************************************************************************)
\* total = int(...) in place of total += int(...): the last row's amount only
SumLast(rows) ==
    IF rows = {} THEN 0
    ELSE int(replace_dollar((CHOOSE r \in rows : \A q \in rows : q.id <= r.id).amount))

RECURSIVE SumAmounts(_)
SumAmounts(rows) ==
    IF rows = {} THEN 0
    ELSE LET e == CHOOSE r \in rows : TRUE
         IN int(replace_dollar(e.amount)) + SumAmounts(rows \ {e})

total(token) ==
    /\ resp' = IF token = NoToken THEN Unauthorized("total")
               ELSE IF \E e \in expenses : ~ int_ok(replace_dollar(e.amount))
               THEN Crash("total", "ValueError")
               ELSE [op |-> "total", status |-> 200, kind |-> "total",
                     total |-> fmt_dollar(SumAmounts(expenses))]
    /\ UNCHANGED <<users, categories, expenses, tokens, today, startDate, pc, frame>>

(***************************************************************************)
(* The server clock, and a restart of the service: the default of          *)
(* Expense.date is evaluated once, when the module is imported.            *)
(***************************************************************************)
FirstDay == <<2024, 2, 29>>

Tick ==
    /\ toordinal(today) < toordinal(FirstDay) + MaxTicks
    /\ today' = fromordinal(toordinal(today) + 1)
    /\ UNCHANGED <<users, categories, expenses, tokens, startDate, resp, pc, frame>>

Restart ==
    /\ startDate # today
    /\ startDate' = today
    /\ UNCHANGED <<users, categories, expenses, tokens, today, resp, pc, frame>>

Callers == tokens \cup {NoToken}
Ids == 1..(MaxExpenses + 1)

Init ==
    /\ users = {}
    /\ categories = {}
    /\ expenses = {}
    /\ tokens = {}
    /\ today = FirstDay
    /\ startDate = FirstDay
    /\ resp = Reply("none", 0, "none")
    /\ pc = [t \in Threads |-> "idle"]
    /\ frame = [t \in Threads |-> NoFrame]

Next ==
    \/ \E d \in RegisterBodies : register(d)
    \/ \E d \in LoginBodies : login(d)
    \/ \E t \in Callers, d \in AddBodies : add(t, d)
    \/ \E t \in Callers, i \in Ids, d \in UpdateBodies : update(t, i, d)
    \/ \E t \in Callers, i \in Ids : delete(t, i)
    \/ \E t \in Callers : get_all(t)
    \/ \E t \in Callers : total(t)
    \/ Tick
    \/ Restart

Spec == Init /\ [][Next]_vars

(***************************************************************************)
(* Concurrent POST /expense requests, after any registrations.             *)
(***************************************************************************)
RaceBodies ==
    { [description |-> d, amount |-> Str(<<"$", "5">>), category |-> c] :
        d \in {Str("lunch"), Null},
        c \in {Str(x) : x \in CategoryNames} \cup {Null} }
    \cup { [description |-> Str("lunch"), amount |-> Str(<<"$", "5">>)] }

NextRace ==
    \/ \E d \in RegisterBodies : register(d)
    \/ \E t \in Threads, k \in Callers, d \in RaceBodies : add_query(t, k, d)
    \/ \E t \in Threads : add_commit_category(t)
    \/ \E t \in Threads : add_commit_expense(t)

SpecRace == Init /\ [][NextRace]_vars

(***************************************************************************)
(* POST /expenses: the rows dated in [start, end].  The DataFrame of an    *)
(* empty ledger has no columns, so df["date"] raises KeyError.             *)
(***************************************************************************)
Between(rows, lo, hi) == { e \in rows : date_le(lo, e.date) /\ date_le(e.date, hi) }

custom_date(token, data) ==
    /\ resp' = IF token = NoToken THEN Unauthorized("custom_date")
               ELSE IF ~ {"start", "end"} \subseteq DOMAIN data
               THEN Crash("custom_date", "ValueError")
               ELSE IF expenses = {}
               THEN Crash("custom_date", "KeyError") @@ [data |-> data]
               ELSE [op |-> "custom_date", status |-> 200, kind |-> "list",
                     data |-> data,
                     body |-> { Render(e) :
                                  e \in Between(expenses, data["start"], data["end"]) }]
    /\ UNCHANGED <<users, categories, expenses, tokens, today, startDate, pc, frame>>

(***************************************************************************)
(* GET /expense/week, /expense/month, /expense/last-3-month                *)
(***************************************************************************)
start_of_this_week(day) == minus_days(day, weekday(day))
prev_week_start(day) == minus_days(start_of_this_week(day), 7)
prev_week_end(day) == minus_days(start_of_this_week(day), 1)

\* The end of the window taken as today - (today.day - 1) days.
prev_month_end_off_by_one(day) == minus_days(day, day[3] - 1)

prev_month_end(day) == minus_days(day, day[3])
prev_month_start(day) == replace_day1(minus_days(day, day[3]))
last_3_month_start(day) == replace_day1(minus_days(day, 12 * 7))

\* past_week names the description column "descsription"
RenderWeek(e) == [id |-> e.id, date |-> e.date, descsription |-> e.description,
                  amount |-> e.amount, category |-> CategoryName(e.category_id)]

past_week(token) ==
    /\ resp' = IF token = NoToken THEN Unauthorized("past_week")
               ELSE IF expenses = {} THEN Reply("past_week", 200, "expense not found")
               ELSE LET filter == Between(expenses, prev_week_start(today),
                                          prev_week_end(today))
                    IN IF filter = {}
                       THEN Reply("past_week", 200, "expense past week not found")
                       ELSE [op |-> "past_week", status |-> 200, kind |-> "list",
                             body |-> { RenderWeek(e) : e \in filter }]
    /\ UNCHANGED <<users, categories, expenses, tokens, today, startDate, pc, frame>>

past_month(token) ==
    /\ resp' = IF token = NoToken THEN Unauthorized("past_month")
               ELSE IF expenses = {} THEN Reply("past_month", 200, "expense not found")
               ELSE LET filter == Between(expenses, prev_month_start(today),
                                          prev_month_end(today))
                    IN IF filter = {}
                       THEN Reply("past_month", 200, "expense past month not found")
                       ELSE [op |-> "past_month", status |-> 200, kind |-> "list",
                             body |-> { Render(e) : e \in filter }]
    /\ UNCHANGED <<users, categories, expenses, tokens, today, startDate, pc, frame>>

last_3_month(token) ==
    /\ resp' = IF token = NoToken THEN Unauthorized("last_3_month")
               ELSE IF expenses = {} THEN Crash("last_3_month", "KeyError")
               ELSE LET filter == Between(expenses, last_3_month_start(today),
                                          prev_month_end(today))
                    IN IF filter = {}
                       THEN Reply("last_3_month", 200, "expense last 3 month not found")
                       ELSE [op |-> "last_3_month", status |-> 200, kind |-> "list",
                             body |-> { Render(e) : e \in filter }]
    /\ UNCHANGED <<users, categories, expenses, tokens, today, startDate, pc, frame>>

(***************************************************************************)
(* GET /expense/total/<id>                                                 *)
(***************************************************************************)
\* date.strftime("%B")
MonthNames ==
    << <<"J", "a", "n", "u", "a", "r", "y">>,
       <<"F", "e", "b", "r", "u", "a", "r", "y">>,
       <<"M", "a", "r", "c", "h">>,
       <<"A", "p", "r", "i", "l">>,
       <<"M", "a", "y">>,
       <<"J", "u", "n", "e">>,
       <<"J", "u", "l", "y">>,
       <<"A", "u", "g", "u", "s", "t">>,
       <<"S", "e", "p", "t", "e", "m", "b", "e", "r">>,
       <<"O", "c", "t", "o", "b", "e", "r">>,
       <<"N", "o", "v", "e", "m", "b", "e", "r">>,
       <<"D", "e", "c", "e", "m", "b", "e", "r">> >>
strftime_B(date) == MonthNames[date[2]]

\* "".join(dict.fromkeys(text)): the characters of text, each kept where it
\* first occurs
RECURSIVE fromkeys(_, _)
fromkeys(text, seen) ==
    IF text = <<>> THEN seen
    ELSE IF \E i \in 1..Len(seen) : seen[i] = Head(text)
    THEN fromkeys(Tail(text), seen)
    ELSE fromkeys(Tail(text), Append(seen, Head(text)))

\* month += date.strftime("%B"), over the matching rows
RECURSIVE MonthText(_)
MonthText(rows) ==
    IF rows = {} THEN <<>>
    ELSE LET e == CHOOSE r \in rows : \A q \in rows : r.id <= q.id
         IN strftime_B(e.date) \o MonthText(rows \ {e})

InMonth(rows, id) == { e \in rows : e.date[2] = id }

total_by_month(token, id) ==
    /\ resp' = IF token = NoToken THEN Unauthorized("total_by_month")
               ELSE IF \E e \in InMonth(expenses, id) : ~ int_ok(replace_dollar(e.amount))
               THEN Crash("total_by_month", "ValueError")
               ELSE [op |-> "total_by_month", status |-> 200, kind |-> "summary",
                     id |-> id,
                     month |-> fromkeys(MonthText(InMonth(expenses, id)), <<>>),
                     total |-> fmt_dollar(SumAmounts(InMonth(expenses, id)))]
    /\ UNCHANGED <<users, categories, expenses, tokens, today, startDate, pc, frame>>

(***************************************************************************)
(* The aggregation handlers applied to the ledgers of up to MaxLedger rows *)
(* that two registered users can have built over several restarts.         *)
(***************************************************************************)
TwoUsers ==
    { [id |-> 1, name |-> "ann", email |-> "a@x",
       password_hash |-> generate_password_hash("pw1")],
      [id |-> 2, name |-> "ann", email |-> "b@x",
       password_hash |-> generate_password_hash("pw1")] }

QueryDates == {<<2023, 1, 31>>, <<2023, 3, 1>>, <<2024, 3, 15>>}
QueryAmounts == {<<"$", "1", "0">>, <<"$", "-", "3">>, <<"x">>}
LastDay == <<2024, 3, 15>>

QueryRows(id) ==
    [id : {id}, date : QueryDates, description : {"lunch"},
     amount : QueryAmounts, category_id : {1}, user_id : {1, 2}]

\* Ids are handed out in order and the clock never goes back.
RECURSIVE LedgersOf(_)
LedgersOf(n) ==
    IF n = 0 THEN {{}}
    ELSE { L \cup {e} : L \in LedgersOf(n - 1),
                        e \in QueryRows(n) }

Ordered(L) == \A e, f \in L : e.id <= f.id => date_le(e.date, f.date)
Ledgers == { L \in UNION { LedgersOf(n) : n \in 0..MaxLedger } : Ordered(L) }

RangeBodies ==
    { d \in { [start |-> a, end |-> b] : a \in QueryDates, b \in QueryDates } :
        date_le(d["start"], d["end"]) }
    \cup { [start |-> <<2024, 3, 15>>, end |-> <<2023, 3, 1>>] }
    \cup { [start |-> <<2023, 3, 1>>] }

InitQuery ==
    /\ users = TwoUsers
    /\ tokens = {1, 2}
    /\ categories = {[id |-> 1, name |-> "food"]}
    /\ expenses \in Ledgers
    /\ today = LastDay
    /\ startDate = LastDay
    /\ resp = Reply("none", 0, "none")
    /\ pc = [t \in Threads |-> "idle"]
    /\ frame = [t \in Threads |-> NoFrame]

NextQuery ==
    \/ \E t \in Callers : total(t)
    \/ \E t \in Callers, m \in 0..12 : total_by_month(t, m)
    \/ \E t \in Callers, d \in RangeBodies : custom_date(t, d)
    \/ \E t \in Callers : get_all(t)

SpecQuery == InitQuery /\ [][NextQuery]_vars

(***************************************************************************)
(* The trailing-window handlers applied on every day of a span of MaxSpan  *)
(* days to a ledger whose row is dated up to MaxBack days earlier.         *)
(***************************************************************************)
SpanStart == <<2023, 12, 20>>

InitWindow ==
    /\ users = TwoUsers
    /\ tokens = {1, 2}
    /\ categories = {[id |-> 1, name |-> "food"]}
    /\ \E n \in 0..MaxSpan :
         /\ today = fromordinal(toordinal(SpanStart) + n)
         /\ \/ expenses = {}
            \/ \E k \in 0..MaxBack :
                 expenses = {[id |-> 1, date |-> minus_days(today, k),
                              description |-> "lunch", amount |-> <<"$", "5">>,
                              category_id |-> 1, user_id |-> 1]}
    /\ startDate = today
    /\ resp = Reply("none", 0, "none")
    /\ pc = [t \in Threads |-> "idle"]
    /\ frame = [t \in Threads |-> NoFrame]

NextWindow ==
    \/ \E t \in Callers : past_week(t)
    \/ \E t \in Callers : past_month(t)
    \/ \E t \in Callers : last_3_month(t)

SpecWindow == InitWindow /\ [][NextWindow]_vars

(***************************************************************************)
(* Properties of the request handlers, under Spec.                         *)
(***************************************************************************)
Complete(data, keys) ==
    keys \subseteq DOMAIN data /\ \A k \in keys : ~ IsNull(data[k])

\* C1: when a user who does not own an expense calls update or delete on it,
\* the response has status 403 and the ledger is left as it was.
C1_NonOwnerForbidden ==
    [][\A t \in tokens, i \in Ids :
         (\E e \in expenses : e.id = i /\ e.user_id # t) =>
            /\ (\E d \in UpdateBodies : update(t, i, d)) =>
                   (resp'.status = 403 /\ expenses' = expenses)
            /\ delete(t, i) => (resp'.status = 403 /\ expenses' = expenses)]_vars

\* C2: no two User rows share an email, and a register call whose email is
\* already present answers 409, issues no token and leaves the Users as they were.
UniqueEmails == \A u, v \in users : u.email = v.email => u = v

C2_DuplicateEmailConflict ==
    /\ []UniqueEmails
    /\ [][\A d \in RegisterBodies :
            ( /\ Complete(d, {"name", "email", "password"})
              /\ \E u \in users : u.email = Val(d["email"])
              /\ register(d) ) =>
            (resp'.status = 409 /\ resp'.kind # "token" /\ tokens' = tokens
             /\ users' = users)]_vars

\* C8: a login whose email matches no User, or whose password does not match,
\* returns the authentication-failure result and no token; a token is
\* returned only for an existing email with its password.
AuthFailure(r) == r.op = "login" /\ r.kind = "email or password is invalid"

C8_LoginFailureResult ==
    [][\A d \in LoginBodies :
         (Complete(d, {"email", "password"}) /\ login(d)) =>
            IF \E u \in users : u.email = Val(d["email"])
                                  /\ check_password(u, Val(d["password"]))
            THEN TRUE
            ELSE AuthFailure(resp') /\ tokens' = tokens]_vars

\* C9: an add request that fails leaves both the Expenses and the Categories
\* as they were before the request.
C9_AddAtomic ==
    [][\A t \in Callers, d \in AddBodies :
         (add(t, d) /\ resp'.status # 200) =>
            (expenses' = expenses /\ categories' = categories)]_vars

\* C10: a successful update changes only the description and the amount of
\* the expense with that id (its date, category and owner stay, every other
\* expense, the Users and the Categories stay), and every Expense always
\* references exactly one existing Category and exactly one existing User.
ReferencesHold ==
    \A e \in expenses :
        /\ Cardinality({ c \in categories : c.id = e.category_id }) = 1
        /\ Cardinality({ u \in users : u.id = e.user_id }) = 1

UpdateFrame(i, d) ==
    /\ users' = users
    /\ categories' = categories
    /\ { e.id : e \in expenses' } = { e.id : e \in expenses }
    /\ Cardinality(expenses') = Cardinality(expenses)
    /\ \A e \in expenses : e.id # i => e \in expenses'
    /\ \A e \in expenses, n \in expenses' :
          (e.id = i /\ n.id = i) =>
             /\ n.date = e.date
             /\ n.category_id = e.category_id
             /\ n.user_id = e.user_id
             /\ n.description = Val(d["description"])
             /\ n.amount = Val(d["amount"])

C10_UpdateFrame ==
    /\ []ReferencesHold
    /\ [][(resp'.op = "update" /\ resp'.kind = "expense") =>
            \A t \in Callers, i \in Ids, d \in UpdateBodies :
                update(t, i, d) => UpdateFrame(i, d)]_vars

\* An update has just rewritten one of two expenses, on a day when a new
\* expense would get another date than the updated one has.
C10_Witness ==
    /\ resp.op = "update"
    /\ resp.kind = "expense"
    /\ \E e, f \in expenses :
          /\ e.id = resp.body.id
          /\ e.date # startDate
          /\ f.id # e.id
          /\ f.user_id # e.user_id
          /\ f.category_id # e.category_id

(***************************************************************************)
(* Properties of concurrent add requests, under SpecRace.                  *)
(***************************************************************************)
\* Two requests that both ran the category query for the same name before
\* either stored it, with bodies that are otherwise valid, and have ended.
Raced(t1, t2) ==
    /\ t1 # t2
    /\ pc[t1] = "done" /\ pc[t2] = "done"
    /\ "data" \in DOMAIN frame[t1] /\ "data" \in DOMAIN frame[t2]
    /\ frame[t1].unseen /\ frame[t2].unseen
    /\ Complete(frame[t1].data, {"description", "amount", "category"})
    /\ Complete(frame[t2].data, {"description", "amount", "category"})
    /\ frame[t1].data["category"] = frame[t2].data["category"]

\* C3: when two add requests with the same unseen category name interleave,
\* afterwards exactly one Category has that name, both requests succeeded,
\* and both created expenses reference that Category.
C3_RaceBothSucceed ==
    \A t1, t2 \in Threads :
        Raced(t1, t2) =>
           LET name == Val(frame[t1].data["category"])
           IN /\ Cardinality(LookupCategory(name)) = 1
              /\ \A t \in {t1, t2} :
                    /\ frame[t].resp.status = 200
                    /\ \E e \in expenses :
                          /\ e.id = frame[t].resp.body.id
                          /\ e.category_id \in { c.id : c \in LookupCategory(name) }

(***************************************************************************)
(* Properties of the aggregation handlers, under SpecQuery.                *)
(***************************************************************************)
\* The integer each well-formed amount text of the ledgers stands for.
AmountValue(a) ==
    CASE a = <<"$", "1", "0">> -> 10
      [] a = <<"$", "-", "3">> -> 0 - 3
      [] a = <<"$", "1", "0", "0">> -> 100
      [] a = <<"$", "5">> -> 5
WellFormed(rows) ==
    \A e \in rows : e.amount \in {<<"$", "1", "0">>, <<"$", "-", "3">>,
                                  <<"$", "1", "0", "0">>, <<"$", "5">>}
RECURSIVE ExactSum(_)
ExactSum(rows) ==
    IF rows = {} THEN 0
    ELSE LET e == CHOOSE r \in rows : TRUE
         IN AmountValue(e.amount) + ExactSum(rows \ {e})

\* C4: by_range(start, end) succeeds on every ledger, the empty one included,
\* and returns exactly the records dated from start to end, both inclusive.
C4_RangeInclusive ==
    (resp.op = "custom_date" /\ "data" \in DOMAIN resp) =>
        /\ resp.status = 200
        /\ resp.body = { Render(e) : e \in
                           { r \in expenses :
                               /\ toordinal(resp.data["start"]) <= toordinal(r.date)
                               /\ toordinal(r.date) <= toordinal(resp.data["end"]) } }

\* C5: on a ledger of currency-prefixed integers total() returns "$" followed
\* by the exact integer sum of the amounts of all records of all owners, for
\* every caller; on the empty ledger it returns "$0".
C5_TotalExact ==
    (resp.op = "total" /\ resp.status # 401 /\ WellFormed(expenses)) =>
        /\ resp.kind = "total"
        /\ Head(resp.total) = "$"
        /\ Tail(resp.total) = str(ExactSum(expenses))
        /\ expenses = {} => resp.total = <<"$", "0">>

\* total() has summed the rows of two owners, one of them negative.
C5_Witness ==
    /\ resp.op = "total"
    /\ resp.kind = "total"
    /\ resp.total = <<"$", "7">>
    /\ \E e, f \in expenses :
          /\ e.user_id # f.user_id
          /\ e.amount = <<"$", "-", "3">>
          /\ f.amount = <<"$", "1", "0">>

\* C6: for a month number m of 1..12 with at least one record dated in month
\* m, total_by_calendar_month(m) reports the exact sum of the amounts of the
\* records of month m and the full English name of month m, once.
C6_MonthTotalAndName ==
    ( /\ resp.op = "total_by_month"
      /\ resp.kind = "summary"
      /\ resp.id \in 1..12
      /\ InMonth(expenses, resp.id) # {}
      /\ WellFormed(InMonth(expenses, resp.id)) ) =>
        /\ resp.total = <<"$">> \o str(ExactSum(InMonth(expenses, resp.id)))
        /\ resp.month = MonthNames[resp.id]

(***************************************************************************)
(* Properties of the trailing-window handlers, under SpecWindow.           *)
(***************************************************************************)
\* Ordinal 1 is a Monday, so the Mondays are the ordinals that are 1 modulo 7.
MondayOfThisWeek ==
    CHOOSE o \in (toordinal(today) - 6)..toordinal(today) : o % 7 = 1
FirstOfThisMonth == toordinal(<<today[1], today[2], 1>>)
PrecedingMonth ==
    IF today[2] = 1 THEN <<today[1] - 1, 12>> ELSE <<today[1], today[2] - 1>>
Returned == IF resp.kind = "list" THEN { r.id : r \in resp.body } ELSE {}

\* C7: no record returned by past_week() is dated on or after the Monday of
\* the current week, none returned by past_month() or past_quarter() is dated
\* on or after the first day of the current month, and past_month() returns
\* the records of the whole preceding calendar month and no others.
C7_WindowsBeforeCurrentPeriod ==
    /\ (resp.op = "past_week" /\ resp.kind = "list") =>
          \A r \in resp.body : toordinal(r.date) < MondayOfThisWeek
    /\ (resp.op \in {"past_month", "last_3_month"} /\ resp.kind = "list") =>
          \A r \in resp.body : toordinal(r.date) < FirstOfThisMonth
    /\ (resp.op = "past_month" /\ resp.status = 200) =>
          Returned = { e.id : e \in { r \in expenses :
                                        <<r.date[1], r.date[2]>> = PrecedingMonth } }

\* past_month() has returned a record dated on the last day of the preceding
\* month.
C7_Witness ==
    /\ resp.op = "past_month"
    /\ resp.kind = "list"
    /\ \E r \in resp.body : toordinal(r.date) + 1 = FirstOfThisMonth

====
